---- MODULE Spec2Model ----
(***************************************************************************)
(* Model of Deploy/app.py: the Streamlit script that receives a zipped set *)
(* of NIfTI volumes, preprocesses and combines the four modalities, runs   *)
(* the segmentation model, displays slices and offers the result file.     *)
(*                                                                         *)
(* Arrays are represented by their shape (a sequence of extents) in the    *)
(* script-level specification Spec; the voxel-level reductions (argmax of  *)
(* the prediction, remap/one-hot/argmax of the ground truth) are checked   *)
(* on small concrete tensors in SpecSeg and SpecMask.                      *)
(***************************************************************************)
EXTENDS Integers, Sequences, FiniteSets, TLC

VARIABLES
    pc,                  \* position of the script run
    uploaded_model,      \* sidebar uploader (line 77): "none" | "valid" | "corrupt"
    model,               \* "default" | "uploaded" | "unset"
    files,               \* suffix of each file of temp_dir, in os.walk order
    paths,               \* t1n_path .. mask_path: index into files, 0 = None
    volumes,             \* shapes of the volumes preprocessed so far (t1n, t1c, t2f, t2w)
    combined_image,      \* shape, or None
    segmentation_result, \* shape, or None
    mask_argmax,         \* shape, or None
    mask_labels,         \* label values occurring in mask_argmax
    errors,              \* kinds of the st.error / st.sidebar.error reports of this run
    predictCalls,        \* calls of model.predict in this run
    modelUsed,           \* the model predict was invoked on
    displayed,           \* the display step (line 156 on) was entered in this run
    written,             \* nib.save calls of this run
    outputExists,        \* segmentation_result.nii.gz exists on disk
    trace,               \* stage operations attempted in this run, in order
    outcome,             \* how the last run ended
    fnpc,                \* function-level specifications: "input" | "output"
    mask,                \* SpecMask: voxel labels of the raw annotation (flattened)
    mask_out,            \* SpecMask: result of the adapter
    input_image,         \* SpecSeg: shape of the combined volume passed in
    prediction,          \* SpecSeg: tensor returned by model.predict
    prediction_argmax    \* SpecSeg: result of run_segmentation

vars == <<pc, uploaded_model, model, files, paths, volumes, combined_image,
          segmentation_result, mask_argmax, mask_labels, errors, predictCalls,
          modelUsed, displayed, written, outputExists, trace, outcome,
          fnpc, mask, mask_out, input_image, prediction, prediction_argmax>>

pipeVars == <<pc, uploaded_model, model, files, paths, volumes, combined_image,
              segmentation_result, mask_argmax, mask_labels, errors, predictCalls,
              modelUsed, displayed, written, outputExists, trace, outcome>>

fnVars == <<fnpc, mask, mask_out, input_image, prediction, prediction_argmax>>

----------------------------------------------------------------------------
(* Bounds *)

MaxFiles == 5      \* files of the extracted archive that the walk visits
MaxVox == 2        \* voxels of the tensors of SpecSeg
MaxMaskVox == 3    \* voxels of the annotation volumes of SpecMask
MaxLabel == 5      \* raw annotation labels of SpecMask range over 0..MaxLabel

----------------------------------------------------------------------------
(* Values *)

None == <<>>

Suffixes == {"t1n", "t1c", "t2f", "t2w", "seg"}

\* A file of the walk is named by the suffix it ends in. Files ending in no
\* recognised suffix fall through every branch of lines 122-131 and are left
\* out of the listing.
FileNames == Suffixes

\* Shapes a NIfTI file may hold: the BraTS shape, a small volume, a 2-D
\* image and a 4-D series.
VolShapes == {<<240, 240, 155>>, <<100, 100, 100>>, <<240, 240>>, <<240, 240, 155, 2>>}

MaskShapes == {<<240, 240, 155>>, <<128, 128, 128>>, <<240, 240>>}

MaskLabelSets == {{0, 1, 2, 3}, {0, 1, 2, 4}, {0, 2, 5}}

FileContents ==
    {[readable |-> TRUE, shape |-> s] : s \in VolShapes}
        \cup {[readable |-> FALSE, shape |-> None]}

MaskContents ==
    {[readable |-> TRUE, shape |-> s, labels |-> l] : s \in MaskShapes, l \in MaskLabelSets}
        \cup {[readable |-> FALSE, shape |-> None, labels |-> {}]}

\* Result of a call: a value, or an exception propagating to the caller.
Return(v) == [raised |-> FALSE, value |-> v]
Raise == [raised |-> TRUE, value |-> None]

Min(a, b) == IF a < b THEN a ELSE b

----------------------------------------------------------------------------
(* Model selection, lines 79-95 *)

SelectAlways(um) == IF um # "none" THEN "uploaded" ELSE "default"

SelectedModel(um) ==
    IF um # "none"
    THEN IF um = "valid" THEN "uploaded"   \* load_model succeeded
         ELSE "default"                    \* except branch, line 92
    ELSE "default"                         \* line 94

----------------------------------------------------------------------------
(* File discovery, lines 114-131 *)

NoPaths == [s \in Suffixes |-> 0]

KeepFirst(p, name, i) ==
    IF name \in Suffixes /\ p[name] = 0 THEN [p EXCEPT ![name] = i] ELSE p

\* One iteration of the inner loop: the matching branch assigns the path.
Match(p, name, i) ==
    IF name \in Suffixes THEN [p EXCEPT ![name] = i] ELSE p

RECURSIVE Walk(_, _, _)
Walk(fs, i, p) ==
    IF i > Len(fs) THEN p ELSE Walk(fs, i + 1, Match(p, fs[i], i))

FindPaths(fs) == Walk(fs, 1, NoPaths)

RequiredThree(p) == p["t1n"] # 0 /\ p["t1c"] # 0 /\ p["t2f"] # 0

RequiredAny(p) == p["t1n"] # 0 \/ p["t1c"] # 0 \/ p["t2f"] # 0 \/ p["t2w"] # 0

\* line 134
RequiredFound(p) == p["t1n"] # 0 /\ p["t1c"] # 0 /\ p["t2f"] # 0 /\ p["t2w"] # 0

----------------------------------------------------------------------------
(* Array helpers (shapes) *)

NumClasses == 4

\* Extent of a[lo:hi] along an axis of extent n (Python clamps the bounds).
SliceLen(n, lo, hi) ==
    LET a == Min(n, lo)
        b == Min(n, hi)
    IN  IF b > a THEN b - a ELSE 0

\* np.expand_dims(a, axis=0)
ExpandDims0(shape) == <<1>> \o shape

\* Shape of np.argmax(a, axis): the axis (0-based) is removed.
ArgmaxShape(shape, axis) ==
    SubSeq(shape, 1, axis) \o SubSeq(shape, axis + 2, Len(shape))

\* np.argmax along a row as numpy computes it: scan left to right and move
\* only on a strictly larger value. The result is 0-based.
RECURSIVE ArgmaxScan(_, _, _)
ArgmaxScan(row, i, best) ==
    IF i > Len(row) THEN best - 1
    ELSE ArgmaxScan(row, i + 1, IF row[i] > row[best] THEN i ELSE best)

RECURSIVE ArgmaxScanLast(_, _, _)
ArgmaxScanLast(row, i, best) ==
    IF i > Len(row) THEN best - 1
    ELSE ArgmaxScanLast(row, i + 1, IF row[i] >= row[best] THEN i ELSE best)

ArgmaxLast(row) == ArgmaxScanLast(row, 2, 1)

ArgmaxFirst(row) == ArgmaxScan(row, 2, 1)

----------------------------------------------------------------------------
(* preprocess_nifti, lines 40-48 *)

\* nib.load fails on a missing path or an unreadable file; the scaler's
\* reshape(-1, shape[-1]) ... reshape(image.shape) returns the input's shape.
preprocess_nifti(path, content) ==
    IF path = 0 \/ ~content.readable THEN Raise ELSE Return(content.shape)

----------------------------------------------------------------------------
(* combine_channels, lines 51-55 *)

CropWindow == << <<56, 184>>, <<56, 184>>, <<13, 141>> >>

\* np.stack(arrays, axis=3): the shapes must agree and axis 3 must exist in
\* the result.
Stack(vs) ==
    IF \E i \in 1..Len(vs) : vs[i] # vs[1] THEN Raise
    ELSE IF Len(vs[1]) < 3 THEN Raise
    ELSE Return(SubSeq(vs[1], 1, 3) \o <<Len(vs)>> \o SubSeq(vs[1], 4, Len(vs[1])))

\* a[56:184, 56:184, 13:141]
Crop(shape) ==
    [i \in 1..Len(shape) |->
        IF i <= 3 THEN SliceLen(shape[i], CropWindow[i][1], CropWindow[i][2])
        ELSE shape[i]]

combine_channels(t1n, t1c, t2f, t2w) ==
    LET st == Stack(<<t1n, t1c, t2f, t2w>>)
    IN  IF st.raised THEN Raise ELSE Return(Crop(st.value))

----------------------------------------------------------------------------
(* run_segmentation, lines 58-73 *)

\* model.predict is a black box: it raises, or returns one score per class
\* at every voxel of the batch.
PredictOutcomes(batched) ==
    {Raise, Return(SubSeq(batched, 1, 4) \o <<NumClasses>>)}

\* The result for a given outcome of predict: the error flag, whether predict
\* was called, whether an exception propagates, and the returned shape.
run_segmentation_shape(input, out) ==
    LET batched == ExpandDims0(input)
    IN  IF Len(batched) # 5
        THEN [error |-> TRUE, called |-> FALSE, raised |-> FALSE, value |-> None]
        ELSE IF out.raised
        THEN [error |-> FALSE, called |-> TRUE, raised |-> TRUE, value |-> None]
        ELSE [error |-> FALSE, called |-> TRUE, raised |-> FALSE,
              value |-> Tail(ArgmaxShape(out.value, 4))]

\* On a concrete tensor [shape, data]: data[v] is the class-score row of voxel v.
run_segmentation(input, pred) ==
    LET batched == ExpandDims0(input)
    IN  IF Len(batched) # 5
        THEN [error |-> TRUE, called |-> FALSE, shape |-> None, data |-> <<>>]
        ELSE [error |-> FALSE, called |-> TRUE,
              shape |-> Tail(ArgmaxShape(pred.shape, 4)),
              data |-> [v \in 1..Len(pred.data) |-> ArgmaxFirst(pred.data[v])]]

----------------------------------------------------------------------------
(* Ground-truth adapter, lines 159-163 *)

NoRemap(l) == l

\* mask[mask == 4] = 3
Remap(l) == IF l = 4 THEN 3 ELSE l

\* One row of to_categorical(mask, num_classes=4)
OneHot(l) == [k \in 1..NumClasses |-> IF k - 1 = l THEN 1 ELSE 0]

\* to_categorical drops a trailing extent of 1 before appending the classes.
ToCategoricalShape(shape) ==
    IF Len(shape) > 1 /\ shape[Len(shape)] = 1
    THEN SubSeq(shape, 1, Len(shape) - 1) \o <<NumClasses>>
    ELSE shape \o <<NumClasses>>

\* Shape of mask_argmax, or the exception of np.argmax(..., axis=3).
GroundTruthShape(shape) ==
    LET cat == ToCategoricalShape(shape)
    IN  IF Len(cat) <= 3 THEN Raise ELSE Return(ArgmaxShape(cat, 3))

\* On the flattened voxels of the mask: to_categorical indexes a row of
\* num_classes entries with each label and fails on a label beyond it.
GroundTruthAdapter(m) ==
    LET r == [v \in 1..Len(m) |-> Remap(m[v])]
    IN  IF \E v \in 1..Len(m) : r[v] >= NumClasses THEN Raise
        ELSE Return([v \in 1..Len(m) |-> ArgmaxFirst(OneHot(r[v]))])

GroundTruthLabels(labels) ==
    LET r == {Remap(l) : l \in labels}
    IN  IF \E l \in r : l >= NumClasses THEN Raise
        ELSE [raised |-> FALSE, value |-> {ArgmaxFirst(OneHot(l)) : l \in r}]

----------------------------------------------------------------------------
(* Display, lines 168-198 *)

slice_indices == <<75, 90, 100>>

\* a[:, :, n] (and a[:, :, n, 0]) is defined
SliceOK(shape, n) == Len(shape) >= 3 /\ n < shape[3]

ShapeAny(shape) == TRUE

\* line 148: len(combined_image.shape) != 4 reports the error
ShapeOK(shape) == Len(shape) = 4

----------------------------------------------------------------------------
(* The script run *)

\* Archives: the extracted files in the order os.walk yields them.
Archives == UNION {[1..n -> FileNames] : n \in 0..MaxFiles}

FnIdle ==
    /\ fnpc = "idle"
    /\ mask = <<>>
    /\ mask_out = Raise
    /\ input_image = None
    /\ prediction = [shape |-> None, data |-> <<>>]
    /\ prediction_argmax = [error |-> FALSE, called |-> FALSE, shape |-> None, data |-> <<>>]

PipeIdle ==
    /\ pc = "idle"
    /\ uploaded_model = "none"
    /\ model = "unset"
    /\ files = <<>>
    /\ paths = NoPaths
    /\ volumes = <<>>
    /\ combined_image = None
    /\ segmentation_result = None
    /\ mask_argmax = None
    /\ mask_labels = {}
    /\ errors = {}
    /\ predictCalls = 0
    /\ modelUsed = "unset"
    /\ displayed = FALSE
    /\ written = 0
    /\ outputExists = FALSE
    /\ trace = <<>>
    /\ outcome = "none"

Init == PipeIdle /\ FnIdle

\* An uncaught exception ends the run; leaving the with-block of line 103
\* removes the temporary directory.
Crash ==
    /\ pc' = "idle"
    /\ outcome' = "uncaught"
    /\ files' = <<>>

\* A rerun of the script: every script variable starts afresh, the working
\* directory is kept. Line 77 reads the sidebar uploader.
StartRun ==
    /\ pc = "idle"
    /\ \E um \in {"none", "valid", "corrupt"} : uploaded_model' = um
    /\ pc' = "select_model"
    /\ model' = "unset"
    /\ files' = <<>>
    /\ paths' = NoPaths
    /\ volumes' = <<>>
    /\ combined_image' = None
    /\ segmentation_result' = None
    /\ mask_argmax' = None
    /\ mask_labels' = {}
    /\ errors' = {}
    /\ predictCalls' = 0
    /\ modelUsed' = "unset"
    /\ displayed' = FALSE
    /\ written' = 0
    /\ trace' = <<>>
    /\ outcome' = "running"
    /\ UNCHANGED <<outputExists, fnVars>>

\* lines 79-95
SelectModel ==
    /\ pc = "select_model"
    /\ model' = SelectedModel(uploaded_model)
    /\ errors' = IF uploaded_model = "corrupt"
                 THEN errors \cup {"InvalidModelFile"} ELSE errors
    /\ pc' = "upload"
    /\ UNCHANGED <<uploaded_model, files, paths, volumes, combined_image,
                   segmentation_result, mask_argmax, mask_labels, predictCalls,
                   modelUsed, displayed, written, outputExists, trace, outcome, fnVars>>

\* line 101, no archive uploaded: the script ends
NoUpload ==
    /\ pc = "upload"
    /\ pc' = "idle"
    /\ outcome' = "no_upload"
    /\ UNCHANGED <<uploaded_model, model, files, paths, volumes, combined_image,
                   segmentation_result, mask_argmax, mask_labels, errors, predictCalls,
                   modelUsed, displayed, written, outputExists, trace, fnVars>>

\* lines 101-111: the archive is saved and extracted; a corrupt archive raises
Extract ==
    /\ pc = "upload"
    /\ trace' = Append(trace, "receive")
    /\ \/ \E a \in Archives : files' = a /\ pc' = "find" /\ outcome' = outcome
       \/ Crash
    /\ UNCHANGED <<uploaded_model, model, paths, volumes, combined_image,
                   segmentation_result, mask_argmax, mask_labels, errors, predictCalls,
                   modelUsed, displayed, written, outputExists, fnVars>>

\* lines 114-131
FindFiles ==
    /\ pc = "find"
    /\ paths' = FindPaths(files)
    /\ pc' = "check_files"
    /\ UNCHANGED <<uploaded_model, model, files, volumes, combined_image,
                   segmentation_result, mask_argmax, mask_labels, errors, predictCalls,
                   modelUsed, displayed, written, outputExists, trace, outcome, fnVars>>

\* line 134 false, lines 215-216
MissingFiles ==
    /\ pc = "check_files"
    /\ ~RequiredFound(paths)
    /\ errors' = errors \cup {"MissingInputFile"}
    /\ pc' = "idle"
    /\ outcome' = "missing_files"
    /\ files' = <<>>
    /\ UNCHANGED <<uploaded_model, model, paths, volumes, combined_image,
                   segmentation_result, mask_argmax, mask_labels, predictCalls,
                   modelUsed, displayed, written, outputExists, trace, fnVars>>

\* The volumes loaded before the first load that raises.
RECURSIVE Loaded(_, _)
Loaded(rs, i) ==
    IF i > Len(rs) \/ rs[i].raised THEN <<>> ELSE <<rs[i].value>> \o Loaded(rs, i + 1)

\* lines 134-142: the four files are loaded and normalised in turn, then
\* combined. The three first files hold the same shape; the content of the
\* fourth is drawn freely.
Preprocess ==
    /\ pc = "check_files"
    /\ RequiredFound(paths)
    /\ trace' = Append(trace, "preprocess")
    /\ \E s \in VolShapes, c \in FileContents :
        LET same == [readable |-> TRUE, shape |-> s]
            content == <<same, same, same, c>>
            order == <<"t1n", "t1c", "t2f", "t2w">>
            rs == [i \in 1..4 |-> preprocess_nifti(paths[order[i]], content[i])]
            vs == Loaded(rs, 1)
            comb == combine_channels(vs[1], vs[2], vs[3], vs[4])
        IN  /\ volumes' = vs
            /\ IF Len(vs) < 4
               THEN Crash /\ combined_image' = combined_image
               ELSE IF comb.raised
               THEN Crash /\ combined_image' = combined_image
               ELSE /\ combined_image' = comb.value
                    /\ pc' = "check_shape"
                    /\ UNCHANGED <<files, outcome>>
    /\ UNCHANGED <<uploaded_model, model, paths, segmentation_result, mask_argmax,
                   mask_labels, errors, predictCalls, modelUsed, displayed, written,
                   outputExists, fnVars>>

\* lines 148-149
ShapeError ==
    /\ pc = "check_shape"
    /\ ~ShapeOK(combined_image)
    /\ errors' = errors \cup {"UnexpectedTensorShape"}
    /\ pc' = "idle"
    /\ outcome' = "shape_error"
    /\ files' = <<>>
    /\ UNCHANGED <<uploaded_model, model, paths, volumes, combined_image,
                   segmentation_result, mask_argmax, mask_labels, predictCalls,
                   modelUsed, displayed, written, outputExists, trace, fnVars>>

\* lines 150-153: a None result is not tested by the caller, which goes on
\* to line 156.
RunSegmentation ==
    /\ pc = "check_shape"
    /\ ShapeOK(combined_image)
    /\ trace' = Append(trace, "infer")
    /\ \E out \in PredictOutcomes(ExpandDims0(combined_image)) :
        LET r == run_segmentation_shape(combined_image, out)
        IN  /\ errors' = IF r.error THEN errors \cup {"UnexpectedTensorShape"} ELSE errors
            /\ predictCalls' = IF r.called THEN predictCalls + 1 ELSE predictCalls
            /\ modelUsed' = IF r.called THEN model ELSE modelUsed
            /\ IF r.raised
               THEN Crash /\ segmentation_result' = segmentation_result
               ELSE /\ segmentation_result' = r.value
                    /\ pc' = "load_mask"
                    /\ UNCHANGED <<files, outcome>>
    /\ UNCHANGED <<uploaded_model, model, paths, volumes, combined_image, mask_argmax,
                   mask_labels, displayed, written, outputExists, fnVars>>

\* lines 155-165
LoadMask ==
    /\ pc = "load_mask"
    /\ displayed' = TRUE
    /\ IF paths["seg"] # 0
       THEN \E mc \in MaskContents :
            LET sh == GroundTruthShape(mc.shape)
                lb == GroundTruthLabels(mc.labels)
            IN  IF ~mc.readable \/ lb.raised \/ sh.raised
                THEN Crash /\ UNCHANGED <<mask_argmax, mask_labels>>
                ELSE /\ mask_argmax' = sh.value
                     /\ mask_labels' = lb.value
                     /\ pc' = "display"
                     /\ UNCHANGED <<files, outcome>>
       ELSE /\ mask_argmax' = None
            /\ pc' = "display"
            /\ UNCHANGED <<mask_labels, files, outcome>>
    /\ UNCHANGED <<uploaded_model, model, paths, volumes, combined_image,
                   segmentation_result, errors, predictCalls, modelUsed, written,
                   outputExists, trace, fnVars>>

\* Every indexing of the plotting loop is defined.
DisplayOK ==
    \A i \in 1..Len(slice_indices) :
        /\ SliceOK(combined_image, slice_indices[i])
        /\ segmentation_result # None
        /\ SliceOK(segmentation_result, slice_indices[i])
        /\ paths["seg"] # 0 => SliceOK(mask_argmax, slice_indices[i])

\* lines 167-198
Display ==
    /\ pc = "display"
    /\ IF DisplayOK THEN pc' = "save" /\ UNCHANGED <<files, outcome>> ELSE Crash
    /\ UNCHANGED <<uploaded_model, model, paths, volumes, combined_image,
                   segmentation_result, mask_argmax, mask_labels, errors, predictCalls,
                   modelUsed, displayed, written, outputExists, trace, fnVars>>

\* lines 200-202
Save ==
    /\ pc = "save"
    /\ trace' = Append(trace, "package")
    /\ written' = written + 1
    /\ outputExists' = TRUE
    /\ pc' = "download"
    /\ UNCHANGED <<uploaded_model, model, files, paths, volumes, combined_image,
                   segmentation_result, mask_argmax, mask_labels, errors, predictCalls,
                   modelUsed, displayed, outcome, fnVars>>

\* lines 204-211: an exception raised while the file is opened or handed to
\* st.download_button leaves the with-blocks without reaching line 214.
Download ==
    /\ pc = "download"
    /\ trace' = Append(trace, "deliver")
    /\ \/ pc' = "remove" /\ UNCHANGED <<files, outcome>>
       \/ Crash
    /\ UNCHANGED <<uploaded_model, model, paths, volumes, combined_image,
                   segmentation_result, mask_argmax, mask_labels, errors, predictCalls,
                   modelUsed, displayed, written, outputExists, fnVars>>

\* lines 213-214 and the end of the with-block of line 103
Remove ==
    /\ pc = "remove"
    /\ outputExists' = FALSE
    /\ files' = <<>>
    /\ pc' = "idle"
    /\ outcome' = "delivered"
    /\ UNCHANGED <<uploaded_model, model, paths, volumes, combined_image,
                   segmentation_result, mask_argmax, mask_labels, errors, predictCalls,
                   modelUsed, displayed, written, trace, fnVars>>

Next ==
    \/ StartRun
    \/ SelectModel
    \/ NoUpload
    \/ Extract
    \/ FindFiles
    \/ MissingFiles
    \/ Preprocess
    \/ ShapeError
    \/ RunSegmentation
    \/ LoadMask
    \/ Display
    \/ Save
    \/ Download
    \/ Remove

Spec == Init /\ [][Next]_vars

----------------------------------------------------------------------------
(* run_segmentation on concrete tensors *)

\* Class scores, as small integers: only their order matters to argmax.
Scores == {0, 1, 2}

\* Spatial shapes of at most MaxVox voxels.
SmallShapes ==
    {sh \in [1..3 -> 1..MaxVox] : sh[1] * sh[2] * sh[3] <= MaxVox}

\* The tensors a model may return for a spatial shape: one row of
\* NumClasses scores per voxel, flattened in C order.
Predictions(sh) ==
    {[shape |-> <<1>> \o sh \o <<NumClasses>>, data |-> d] :
        d \in [1..(sh[1] * sh[2] * sh[3]) -> [1..NumClasses -> Scores]]}

\* Inputs: a 4-channel combined volume and the tensor the model returns for
\* it, or a volume of another rank, for which the model is not consulted.
InitSeg ==
    /\ PipeIdle
    /\ fnpc = "input"
    /\ mask = <<>>
    /\ mask_out = Raise
    /\ prediction_argmax = [error |-> FALSE, called |-> FALSE, shape |-> None, data |-> <<>>]
    /\ \E sh \in SmallShapes :
        \/ /\ input_image = sh \o <<4>>
           /\ prediction \in Predictions(sh)
        \/ /\ input_image \in {sh, sh \o <<4, 1>>}
           /\ prediction = [shape |-> None, data |-> <<>>]

\* lines 58-73
ApplyRunSegmentation ==
    /\ fnpc = "input"
    /\ prediction_argmax' = run_segmentation(input_image, prediction)
    /\ fnpc' = "output"
    /\ UNCHANGED <<pipeVars, mask, mask_out, input_image, prediction>>

SpecSeg == InitSeg /\ [][ApplyRunSegmentation]_vars

----------------------------------------------------------------------------
(* Ground-truth adapter on concrete voxels *)

\* The raw annotation after astype(np.uint8): its flattened voxel labels.
InitMask ==
    /\ PipeIdle
    /\ fnpc = "input"
    /\ mask \in UNION {[1..n -> 0..MaxLabel] : n \in 1..MaxMaskVox}
    /\ mask_out = Raise
    /\ input_image = None
    /\ prediction = [shape |-> None, data |-> <<>>]
    /\ prediction_argmax = [error |-> FALSE, called |-> FALSE, shape |-> None, data |-> <<>>]

\* lines 161-163
AdaptMask ==
    /\ fnpc = "input"
    /\ mask_out' = GroundTruthAdapter(mask)
    /\ fnpc' = "output"
    /\ UNCHANGED <<pipeVars, mask, input_image, prediction, prediction_argmax>>

SpecMask == InitMask /\ [][AdaptMask]_vars

----------------------------------------------------------------------------
(* Properties *)

Modalities == {"t1n", "t1c", "t2f", "t2w"}

Stages == <<"receive", "preprocess", "infer", "package", "deliver">>

IsPrefix(a, b) == Len(a) <= Len(b) /\ a = SubSeq(b, 1, Len(a))

\* The walk of this run has finished and the check of line 134 was taken.
Walked ==
    /\ trace # <<>>
    /\ pc \notin {"find", "check_files"}
    /\ ~(outcome = "uncaught" /\ Len(trace) = 1)

\* C1: when a required modality file is absent from the archive, the run
\* ends with the MissingInputFile report and nothing else: no volume was
\* loaded, nothing was combined, predict was not called, no file was written.
\* Whether seg.nii.gz is present plays no part.
C1_MissingFileAborts ==
    (Walked /\ \E s \in Modalities : paths[s] = 0)
        => /\ pc = "idle"
           /\ outcome = "missing_files"
           /\ "MissingInputFile" \in errors
           /\ volumes = <<>>
           /\ combined_image = None
           /\ segmentation_result = None
           /\ predictCalls = 0
           /\ ~displayed
           /\ written = 0
           /\ trace = <<"receive">>

C1_Witness ==
    /\ pc = "idle"
    /\ outcome = "missing_files"
    /\ paths["t2w"] = 0
    /\ paths["t1n"] # 0 /\ paths["t1c"] # 0 /\ paths["t2f"] # 0
    /\ paths["seg"] # 0

\* C2: a failed rank check is reported and ends the run: whenever the shape
\* error has been reported, predict was not called, the display step was not
\* entered and no file was written; and a combined volume that is not 4-D
\* always leads to that report.
C2_ShapeErrorAborts ==
    /\ "UnexpectedTensorShape" \in errors
        => /\ pc = "idle"
           /\ outcome = "shape_error"
           /\ predictCalls = 0
           /\ segmentation_result = None
           /\ ~displayed
           /\ written = 0
    /\ (combined_image # None /\ Len(combined_image) # 4 /\ pc # "check_shape")
        => "UnexpectedTensorShape" \in errors

C2_Witness ==
    /\ pc = "idle"
    /\ outcome = "shape_error"
    /\ Len(combined_image) = 5
    /\ "UnexpectedTensorShape" \in errors

\* C3: after a run has ended, on whatever path, segmentation_result.nii.gz
\* does not exist on disk.
C3_ResultFileReleased == pc = "idle" => ~outputExists

\* C4: four equal-shaped 3-D volumes combine to a volume of shape
\* (128, 128, 128, 4), never a smaller one.
C4_CombinedIs128Cubed ==
    (/\ Len(volumes) = 4
     /\ \A i \in 1..4 : volumes[i] = volumes[1] /\ Len(volumes[i]) = 3)
        => combined_image = <<128, 128, 128, 4>>

\* C5: the ground-truth label volume has the spatial shape of the prediction
\* and of the cropped combined volume. Stated for the runs whose combined
\* volume fills the whole crop window, so that a truncated crop plays no part.
C5_LabelVolumesAligned ==
    (/\ mask_argmax # None
     /\ segmentation_result # None
     /\ combined_image = <<128, 128, 128, 4>>)
        => /\ mask_argmax = segmentation_result
           /\ mask_argmax = SubSeq(combined_image, 1, 3)

\* C6: the ground-truth adapter accepts every volume of labels 0..4, maps 4
\* to 3 and every other label to itself, and whatever it returns has one
\* label of 0..3 per input voxel.
C6_AdapterRemaps ==
    fnpc = "output"
        => /\ (\A v \in 1..Len(mask) : mask[v] <= 4) => ~mask_out.raised
           /\ ~mask_out.raised
                => /\ Len(mask_out.value) = Len(mask)
                   /\ \A v \in 1..Len(mask) :
                        /\ mask_out.value[v] \in 0..3
                        /\ mask[v] = 4 => mask_out.value[v] = 3
                        /\ mask[v] # 4 => mask_out.value[v] = mask[v]

C6_Witness ==
    /\ fnpc = "output"
    /\ ~mask_out.raised
    /\ \E v, w \in 1..Len(mask) :
        /\ mask[v] = 4 /\ mask_out.value[v] = 3
        /\ mask[w] = 2 /\ mask_out.value[w] = 2

\* C7: for a 4-D combined volume, run_segmentation returns a label volume of
\* the prediction's spatial shape whose value at each voxel is the lowest
\* class index attaining the largest score of that voxel.
C7_ArgmaxLowestIndex ==
    (fnpc = "output" /\ Len(input_image) = 4)
        => /\ prediction_argmax.called
           /\ ~prediction_argmax.error
           /\ prediction_argmax.shape = SubSeq(prediction.shape, 2, 4)
           /\ prediction_argmax.shape = SubSeq(input_image, 1, 3)
           /\ Len(prediction_argmax.data) = Len(prediction.data)
           /\ \A v \in 1..Len(prediction.data) :
                LET row == prediction.data[v]
                    k == prediction_argmax.data[v]
                IN  /\ k \in 0..(NumClasses - 1)
                    /\ \A j \in 1..NumClasses : row[j] <= row[k + 1]
                    /\ \A j \in 1..k : row[j] < row[k + 1]

\* Two voxels, one with its largest score at classes 1 and 3 (the result is
\* 1), the other with class 2 alone the largest.
C7_Witness ==
    /\ fnpc = "output"
    /\ prediction_argmax.called
    /\ Len(prediction.data) = 2
    /\ prediction.data[1] = <<0, 2, 1, 2>> /\ prediction_argmax.data[1] = 1
    /\ prediction.data[2] = <<0, 0, 1, 0>> /\ prediction_argmax.data[2] = 2

\* C8: once the model is selected, it is the uploaded one exactly when a
\* model was uploaded and loaded; a failed load is reported and the run goes
\* on with the default model, which is then the one predict is called on.
C8_ModelSelection ==
    (outcome # "none" /\ pc # "select_model")
        => /\ model = "uploaded" <=> uploaded_model = "valid"
           /\ model = "default" <=> uploaded_model \in {"none", "corrupt"}
           /\ "InvalidModelFile" \in errors <=> uploaded_model = "corrupt"
           /\ predictCalls > 0 => modelUsed = model
           /\ (pc = "idle" /\ trace = <<>>) => outcome = "no_upload"

C8_Witness ==
    /\ pc = "idle"
    /\ outcome = "delivered"
    /\ uploaded_model = "corrupt"
    /\ "InvalidModelFile" \in errors
    /\ modelUsed = "default"

\* C9 as stated: of several files ending in the same suffix, the first one
\* of the walk is used.
C9_FirstMatchWins ==
    (files # <<>> /\ pc # "find")
        => \A s \in Suffixes :
            (\E i \in 1..Len(files) : files[i] = s)
                => /\ paths[s] \in 1..Len(files)
                   /\ files[paths[s]] = s
                   /\ \A i \in 1..Len(files) : files[i] = s => paths[s] <= i

\* C9, amended: of several files ending in the same suffix, the last one of
\* the walk is used; a suffix no file ends in leaves its path unset.
C9_LastMatchWins ==
    (files # <<>> /\ pc # "find")
        => \A s \in Suffixes :
            IF \E i \in 1..Len(files) : files[i] = s
            THEN /\ paths[s] \in 1..Len(files)
                 /\ files[paths[s]] = s
                 /\ \A i \in 1..Len(files) : files[i] = s => i <= paths[s]
            ELSE paths[s] = 0

C9_Witness ==
    /\ pc = "check_files"
    /\ \E i, j \in 1..Len(files) :
        /\ i < j
        /\ files[i] = "t1c" /\ files[j] = "t1c"
        /\ paths["t1c"] = j
    /\ \A s \in Modalities : paths[s] # 0

\* C10 as stated: a run that has started processing an archive ends
\* delivered or at one of the two reported-error exits.
C10_OnlyReportedExits ==
    (pc = "idle" /\ trace # <<>>)
        => outcome \in {"delivered", "missing_files", "shape_error"}

\* C10, amended: the stage operations are attempted in the one linear order,
\* each at most once and none skipped; a file is written only after
\* inference returned a result, inference is attempted only on a 4-D
\* combination of four preprocessed volumes found in the archive; a run ends
\* delivered after all five stages, at a reported-error exit without output
\* (after receive on missing files, after preprocess on a wrong rank), or at
\* the stage where an exception is raised and propagates uncaught.
C10_LinearStages ==
    /\ IsPrefix(trace, Stages)
    /\ predictCalls <= 1 /\ written <= 1
    /\ written > 0
        => /\ predictCalls = 1
           /\ segmentation_result # None
           /\ IsPrefix(SubSeq(Stages, 1, 4), trace)
    /\ Len(trace) >= 2 => \A s \in Modalities : paths[s] # 0
    /\ Len(trace) >= 3 => Len(volumes) = 4 /\ Len(combined_image) = 4
    /\ predictCalls > 0 => Len(trace) >= 3
    /\ outcome = "delivered" => trace = Stages /\ written = 1
    /\ outcome = "missing_files"
        => /\ trace = SubSeq(Stages, 1, 1)
           /\ \E s \in Modalities : paths[s] = 0
           /\ written = 0
    /\ outcome = "shape_error"
        => /\ trace = SubSeq(Stages, 1, 2)
           /\ Len(combined_image) # 4
           /\ written = 0
    /\ (pc = "idle" /\ trace # <<>>)
        => outcome \in {"delivered", "missing_files", "shape_error", "uncaught"}

C10_Witness ==
    /\ pc = "idle"
    /\ outcome = "delivered"
    /\ trace = Stages
    /\ written = 1
    /\ predictCalls = 1

====
